---- MODULE Spec2Model ----
(***************************************************************************)
(* Model of package leapmotion (src/leapmotion.go): the Client connection  *)
(* lifecycle (Connect, processData, Close, Done) over an abstract          *)
(* WebSocket transport.                                                    *)
(*                                                                         *)
(* Each client is one call of Connect.  The caller's goroutine walks       *)
(* through Connect (cpc), the receive goroutine walks through processData  *)
(* (lpc).  The transport is the environment: dial and sends may fail,      *)
(* inbound messages arrive at any time and may be undecodable.             *)
(*                                                                         *)
(* InteractionBox.NormalizePoint is a pure function; it is modelled as an  *)
(* operator over exact fractions and exercised by NormSpec, which draws    *)
(* its inputs from small sets of slices of every length up to MaxLen.      *)
(***************************************************************************)
EXTENDS Integers, Sequences, FiniteSets, TLC

\* ------------------------------------------------------------------ bounds
MaxMsgs == 3        \* inbound messages the peer sends on one connection
MaxCloses == 2      \* Close calls made on one client
MaxErrs == 2        \* failed receives counted (the counter saturates here)
MaxLen == 4         \* longest slice handed to NormalizePoint

Clients == {"c1"}

VARIABLES
    cpc,          \* position of the caller inside Connect ("literal": the
                  \* caller made a Client without Connect)
    handler,      \* Client.frameHandler: "nil" or "fn"
    conn,         \* transport connection behind Client.ws: none / open / closed
    wire,         \* messages sent on the connection, in order
    failed,       \* the transport operation of Connect that failed, or "none"
    ret,          \* what Connect returned: [client, err]
    done,         \* Client.done channel: none / open / closed
    doneCloses,   \* number of close(c.done) executions
    doneSeen,     \* a waiter on Done() has seen the channel closed
    lpc,          \* position of the processData goroutine
    loops,        \* number of processData goroutines started
    unwinding,    \* why processData unwinds: none / panic / goexit
    inbound,      \* messages arrived on the connection, not yet received
    arrived,      \* number of messages the peer has sent
    consumed,     \* messages taken off the connection by Receive, in order
    heap,         \* Frame objects allocated by processData
    dataPtr,      \* the local variable data of processData (index in heap)
    recvOK,       \* number of Receive calls that returned nil
    recvErrs,     \* number of Receive calls that returned an error
    delivered,    \* handler invocations: [ptr, snap, msg]
    inHandler,    \* handler calls in progress
    closeResults, \* results of the Close calls, in order
    crashed,      \* the process died of an unrecovered panic
    npc,          \* NormalizePoint calls made: off / idle / called / again
    nmem,         \* backing arrays of the slices, by name: center and size
                  \* of the InteractionBox, position, and the results r1, r2
    nargs,        \* the inputs as the caller set them up, and clamp
    nres          \* what each call returned: [ptr, err, val, arg]

connVars == <<cpc, handler, conn, wire, failed, ret>>
doneVars == <<done, doneCloses, doneSeen>>
loopVars == <<lpc, loops, unwinding>>
recvVars == <<inbound, arrived, consumed, heap, dataPtr, recvOK, recvErrs>>
callVars == <<delivered, inHandler>>
clientVars == <<connVars, doneVars, loopVars, recvVars, callVars, closeResults,
                crashed>>
normVars == <<npc, nmem, nargs, nres>>
vars == <<clientVars, normVars>>

\* ------------------------------------------------------------------ float64
\* float64 values as exact fractions n/d in lowest terms (d > 0), plus the
\* values a division by zero produces.  The inputs used below are small
\* integers and the sizes are powers of two, so float64 arithmetic on them
\* is exact and agrees with these fractions.
RECURSIVE GCD(_, _)
GCD(a, b) == IF b = 0 THEN a ELSE GCD(b, a % b)
Abs(a) == IF a < 0 THEN -a ELSE a

Fin(n, d) ==
    LET sn == IF d < 0 THEN -n ELSE n
        sd == Abs(d)
        g == GCD(Abs(sn), sd)
    IN  [kind |-> "fin", n |-> sn \div g, d |-> sd \div g]
PInf == [kind |-> "+inf", n |-> 0, d |-> 1]
NInf == [kind |-> "-inf", n |-> 0, d |-> 1]
NaN == [kind |-> "nan", n |-> 0, d |-> 1]

\* float64(i) for an int i
FromInt(i) == Fin(i, 1)
Zero == FromInt(0)
One == FromInt(1)
Half == Fin(1, 2)

\* x - y, x + y on finite operands; an infinity or NaN on the left stays
FSub(x, y) ==
    IF x.kind # "fin" THEN x ELSE Fin(x.n * y.d - y.n * x.d, x.d * y.d)
FAdd(x, y) ==
    IF x.kind # "fin" THEN x ELSE Fin(x.n * y.d + y.n * x.d, x.d * y.d)

\* x / y for finite x, y: IEEE 754 gives an infinity for x/0 and NaN for 0/0
FDiv(x, y) ==
    IF y.n # 0 THEN Fin(x.n * y.d, x.d * y.n)
    ELSE IF x.n > 0 THEN PInf
    ELSE IF x.n < 0 THEN NInf
    ELSE NaN

\* x < y (false whenever a NaN is involved)
FLess(x, y) ==
    IF x.kind = "nan" \/ y.kind = "nan" THEN FALSE
    ELSE IF x.kind = "-inf" THEN y.kind # "-inf"
    ELSE IF y.kind = "+inf" THEN x.kind # "+inf"
    ELSE IF x.kind = "+inf" \/ y.kind = "-inf" THEN FALSE
    ELSE x.n * y.d < y.n * x.d

\* math.Max, math.Min: NaN if either operand is NaN
FMax(x, y) ==
    IF x.kind = "nan" \/ y.kind = "nan" THEN NaN
    ELSE IF FLess(x, y) THEN y ELSE x
FMin(x, y) ==
    IF x.kind = "nan" \/ y.kind = "nan" THEN NaN
    ELSE IF FLess(y, x) THEN y ELSE x

\* ------------------------------------------------------------------ frames
\* A Frame as far as decoding is concerned: a field every tracking message
\* carries (id) and a field a message may omit (gestures).  0 is Go's zero
\* value.
ZeroFrame == [id |-> 0, gestures |-> 0]

\* websocket.JSON.Receive(c.ws, data) on a decodable message: json.Unmarshal
\* writes the fields present in the message into the existing *data and
\* leaves the fields the message omits as they were.
Decode(frame, m) ==
    [id |-> m.seq, gestures |-> IF m.hasG THEN m.seq ELSE frame.gestures]

\* The same call on an undecodable message: a syntax error leaves *data
\* alone, a type error in one field still stores the other fields.
DecodeFailed(frame, m) ==
    [id |-> frame.id, gestures |-> IF m.hasG THEN m.seq ELSE frame.gestures]

Inc(f, c) == [f EXCEPT ![c] = @ + 1]

\* ----------------------------------------------------------------- Connect
ClientInit ==
    /\ cpc = [c \in Clients |-> "idle"]
    /\ handler = [c \in Clients |-> "nil"]
    /\ conn = [c \in Clients |-> "none"]
    /\ wire = [c \in Clients |-> <<>>]
    /\ failed = [c \in Clients |-> "none"]
    /\ ret = [c \in Clients |-> [client |-> "nil", err |-> "none"]]
    /\ done = [c \in Clients |-> "none"]
    /\ doneCloses = [c \in Clients |-> 0]
    /\ doneSeen = [c \in Clients |-> FALSE]
    /\ lpc = [c \in Clients |-> "none"]
    /\ loops = [c \in Clients |-> 0]
    /\ unwinding = [c \in Clients |-> "none"]
    /\ inbound = [c \in Clients |-> <<>>]
    /\ arrived = [c \in Clients |-> 0]
    /\ consumed = [c \in Clients |-> <<>>]
    /\ heap = [c \in Clients |-> <<>>]
    /\ dataPtr = [c \in Clients |-> 0]
    /\ recvOK = [c \in Clients |-> 0]
    /\ recvErrs = [c \in Clients |-> 0]
    /\ delivered = [c \in Clients |-> <<>>]
    /\ inHandler = [c \in Clients |-> 0]
    /\ closeResults = [c \in Clients |-> <<>>]
    /\ crashed = FALSE

\* No NormalizePoint call is set up.
NormOff ==
    /\ npc = "off"
    /\ nmem = [center |-> <<>>, size |-> <<>>, position |-> <<>>,
               r1 |-> <<>>, r2 |-> <<>>]
    /\ nargs = [center |-> <<>>, size |-> <<>>, position |-> <<>>,
                clamp |-> FALSE]
    /\ nres = <<>>

Init == ClientInit /\ NormOff

\* The early return of Connect: return nil, err
ReturnErr(c, op) ==
    /\ failed' = [failed EXCEPT ![c] = op]
    /\ ret' = [ret EXCEPT ![c] = [client |-> "nil", err |-> op]]
    /\ cpc' = [cpc EXCEPT ![c] = "returned"]

\* Connect(frameHandler): websocket.Dial, then the Client literal.
ConnectDial(c) ==
    /\ ~crashed
    /\ cpc[c] = "idle"
    /\ \E ok \in BOOLEAN, h \in {"nil", "fn"} :
          IF ok
          THEN /\ conn' = [conn EXCEPT ![c] = "open"]
               /\ done' = [done EXCEPT ![c] = "open"]
               /\ handler' = [handler EXCEPT ![c] = h]
               /\ cpc' = [cpc EXCEPT ![c] = "send1"]
               /\ UNCHANGED <<failed, ret>>
          ELSE /\ ReturnErr(c, "dial")
               /\ UNCHANGED <<conn, done, handler>>
    /\ UNCHANGED <<wire, doneCloses, doneSeen, loopVars, recvVars, callVars,
                   closeResults, crashed>>
    /\ UNCHANGED normVars

\* Variant of ConnectSendGestures: the first send carries the wrong flag.
ConnectSendGestures_wrongFlag(c) ==
    /\ ~crashed
    /\ cpc[c] = "send1"
    /\ \E ok \in BOOLEAN :
          IF ok
          THEN /\ wire' = [wire EXCEPT ![c] = Append(@, "backgroundMessage")]
               /\ cpc' = [cpc EXCEPT ![c] = "send2"]
               /\ UNCHANGED <<failed, ret>>
          ELSE /\ ReturnErr(c, "send1")
               /\ UNCHANGED wire
    /\ UNCHANGED <<handler, conn, doneVars, loopVars, recvVars, callVars,
                   closeResults, crashed>>
    /\ UNCHANGED normVars

\* websocket.JSON.Send(c.ws, map[string]bool{"enableGestures": true})
ConnectSendGestures(c) ==
    /\ ~crashed
    /\ cpc[c] = "send1"
    /\ \E ok \in BOOLEAN :
          IF ok
          THEN /\ wire' = [wire EXCEPT ![c] = Append(@, "enableGestures")]
               /\ cpc' = [cpc EXCEPT ![c] = "send2"]
               /\ UNCHANGED <<failed, ret>>
          ELSE /\ ReturnErr(c, "send1")
               /\ UNCHANGED wire
    /\ UNCHANGED <<handler, conn, doneVars, loopVars, recvVars, callVars,
                   closeResults, crashed>>
    /\ UNCHANGED normVars

\* Variant of ConnectSendBackground: the error of the second send is dropped
\* and Connect goes on to start the loop.
ConnectSendBackground_ignoresErr(c) ==
    /\ ~crashed
    /\ cpc[c] = "send2"
    /\ \E ok \in BOOLEAN :
          IF ok
          THEN /\ wire' = [wire EXCEPT ![c] = Append(@, "backgroundMessage")]
               /\ UNCHANGED failed
          ELSE /\ failed' = [failed EXCEPT ![c] = "send2"]
               /\ UNCHANGED wire
    /\ cpc' = [cpc EXCEPT ![c] = "go"]
    /\ UNCHANGED <<handler, conn, ret, doneVars, loopVars, recvVars, callVars,
                   closeResults, crashed>>
    /\ UNCHANGED normVars

\* websocket.JSON.Send(c.ws, map[string]bool{"backgroundMessage": true})
ConnectSendBackground(c) ==
    /\ ~crashed
    /\ cpc[c] = "send2"
    /\ \E ok \in BOOLEAN :
          IF ok
          THEN /\ wire' = [wire EXCEPT ![c] = Append(@, "backgroundMessage")]
               /\ cpc' = [cpc EXCEPT ![c] = "go"]
               /\ UNCHANGED <<failed, ret>>
          ELSE /\ ReturnErr(c, "send2")
               /\ UNCHANGED wire
    /\ UNCHANGED <<handler, conn, doneVars, loopVars, recvVars, callVars,
                   closeResults, crashed>>
    /\ UNCHANGED normVars

\* Variant of ConnectGo: the go statement is written twice.
ConnectGo_twice(c) ==
    /\ ~crashed
    /\ cpc[c] = "go"
    /\ loops' = [loops EXCEPT ![c] = @ + 2]
    /\ lpc' = [lpc EXCEPT ![c] = "spawned"]
    /\ ret' = [ret EXCEPT ![c] = [client |-> c, err |-> "nil"]]
    /\ cpc' = [cpc EXCEPT ![c] = "returned"]
    /\ UNCHANGED <<handler, conn, wire, failed, doneVars, unwinding, recvVars,
                   callVars, closeResults, crashed>>
    /\ UNCHANGED normVars

\* go c.processData(); return c, nil
ConnectGo(c) ==
    /\ ~crashed
    /\ cpc[c] = "go"
    /\ loops' = Inc(loops, c)
    /\ lpc' = [lpc EXCEPT ![c] = "spawned"]
    /\ ret' = [ret EXCEPT ![c] = [client |-> c, err |-> "nil"]]
    /\ cpc' = [cpc EXCEPT ![c] = "returned"]
    /\ UNCHANGED <<handler, conn, wire, failed, doneVars, unwinding, recvVars,
                   callVars, closeResults, crashed>>
    /\ UNCHANGED normVars

\* A Client value made without Connect (var c Client, &Client{}): ws, done
\* and frameHandler are nil and no goroutine runs.
NewZeroClient(c) ==
    /\ ~crashed
    /\ cpc[c] = "idle"
    /\ cpc' = [cpc EXCEPT ![c] = "literal"]
    /\ UNCHANGED <<handler, conn, wire, failed, ret, doneVars, loopVars,
                   recvVars, callVars, closeResults, crashed>>
    /\ UNCHANGED normVars

\* The caller holds a *Client: the one Connect returned, or a literal.
HasClient(c) == ret[c].client = c \/ cpc[c] = "literal"

\* ------------------------------------------------------------- processData
\* Variant of ProcessDataStart: close(c.done) without the defer, so the
\* channel is closed as the loop starts.
ProcessDataStart_noDefer(c) ==
    /\ ~crashed
    /\ lpc[c] = "spawned"
    /\ heap' = [heap EXCEPT ![c] = Append(@, ZeroFrame)]
    /\ dataPtr' = [dataPtr EXCEPT ![c] = Len(heap[c]) + 1]
    /\ done' = [done EXCEPT ![c] = "closed"]
    /\ doneCloses' = Inc(doneCloses, c)
    /\ lpc' = [lpc EXCEPT ![c] = "receive"]
    /\ UNCHANGED <<connVars, doneSeen, loops, unwinding, inbound, arrived,
                   consumed, recvOK, recvErrs, callVars, closeResults, crashed>>
    /\ UNCHANGED normVars

\* defer close(c.done); data := &Frame{}
ProcessDataStart(c) ==
    /\ ~crashed
    /\ lpc[c] = "spawned"
    /\ heap' = [heap EXCEPT ![c] = Append(@, ZeroFrame)]
    /\ dataPtr' = [dataPtr EXCEPT ![c] = Len(heap[c]) + 1]
    /\ lpc' = [lpc EXCEPT ![c] = "receive"]
    /\ UNCHANGED <<connVars, doneVars, loops, unwinding, inbound, arrived,
                   consumed, recvOK, recvErrs, callVars, closeResults, crashed>>
    /\ UNCHANGED normVars

\* The peer sends one more message; it may be undecodable.
Arrive(c) ==
    /\ ~crashed
    /\ conn[c] = "open"
    /\ arrived[c] < MaxMsgs
    /\ \E ok \in BOOLEAN, g \in BOOLEAN :
          inbound' = [inbound EXCEPT ![c] =
                        Append(@, [seq |-> arrived[c] + 1, ok |-> ok, hasG |-> g])]
    /\ arrived' = Inc(arrived, c)
    /\ UNCHANGED <<connVars, doneVars, loopVars, consumed, heap, dataPtr,
                   recvOK, recvErrs, callVars, closeResults, crashed>>
    /\ UNCHANGED normVars

\* websocket.JSON.Receive(c.ws, data) returns nil: one message is taken off
\* the connection and decoded into *data.  Receive blocks while the
\* connection is open and nothing has arrived; a message that had arrived
\* before Close can still be returned from the read buffer.
ReceiveOK(c) ==
    /\ ~crashed
    /\ lpc[c] = "receive"
    /\ inbound[c] # <<>>
    /\ Head(inbound[c]).ok
    /\ heap' = [heap EXCEPT ![c][dataPtr[c]] = Decode(@, Head(inbound[c]))]
    /\ consumed' = [consumed EXCEPT ![c] = Append(@, Head(inbound[c]))]
    /\ inbound' = [inbound EXCEPT ![c] = Tail(@)]
    /\ recvOK' = Inc(recvOK, c)
    /\ lpc' = [lpc EXCEPT ![c] = "check"]
    /\ UNCHANGED <<connVars, doneVars, loops, unwinding, arrived, dataPtr,
                   recvErrs, callVars, closeResults, crashed>>
    /\ UNCHANGED normVars

\* Variant of ReceiveErr: after an undecodable message the rest of what has
\* arrived is thrown away with it.
ReceiveErr_dropsRest(c) ==
    /\ ~crashed
    /\ lpc[c] = "receive"
    /\ \/ /\ inbound[c] # <<>>
          /\ ~Head(inbound[c]).ok
          /\ heap' = [heap EXCEPT ![c][dataPtr[c]] =
                         DecodeFailed(@, Head(inbound[c]))]
          /\ consumed' = [consumed EXCEPT ![c] = @ \o inbound[c]]
          /\ inbound' = [inbound EXCEPT ![c] = <<>>]
       \/ /\ conn[c] = "closed"
          /\ UNCHANGED <<heap, consumed, inbound>>
    /\ recvErrs' = [recvErrs EXCEPT ![c] = IF @ < MaxErrs THEN @ + 1 ELSE @]
    /\ lpc' = [lpc EXCEPT ![c] = "failed"]
    /\ UNCHANGED <<connVars, doneVars, loops, unwinding, arrived, dataPtr,
                   recvOK, callVars, closeResults, crashed>>
    /\ UNCHANGED normVars

\* Variant of ReceiveErr: the continue is missing, so the loop falls through
\* to the handler call after a failed receive.
ReceiveErr_noContinue(c) ==
    /\ ~crashed
    /\ lpc[c] = "receive"
    /\ \/ /\ inbound[c] # <<>>
          /\ ~Head(inbound[c]).ok
          /\ heap' = [heap EXCEPT ![c][dataPtr[c]] =
                         DecodeFailed(@, Head(inbound[c]))]
          /\ consumed' = [consumed EXCEPT ![c] = Append(@, Head(inbound[c]))]
          /\ inbound' = [inbound EXCEPT ![c] = Tail(@)]
       \/ /\ conn[c] = "closed"
          /\ UNCHANGED <<heap, consumed, inbound>>
    /\ recvErrs' = [recvErrs EXCEPT ![c] = IF @ < MaxErrs THEN @ + 1 ELSE @]
    /\ lpc' = [lpc EXCEPT ![c] = "check"]
    /\ UNCHANGED <<connVars, doneVars, loops, unwinding, arrived, dataPtr,
                   recvOK, callVars, closeResults, crashed>>
    /\ UNCHANGED normVars

\* Variant of ReceiveErr: return instead of continue, a failed receive ends
\* the loop.
ReceiveErr_returns(c) ==
    /\ ~crashed
    /\ lpc[c] = "receive"
    /\ \/ /\ inbound[c] # <<>>
          /\ ~Head(inbound[c]).ok
          /\ heap' = [heap EXCEPT ![c][dataPtr[c]] =
                         DecodeFailed(@, Head(inbound[c]))]
          /\ consumed' = [consumed EXCEPT ![c] = Append(@, Head(inbound[c]))]
          /\ inbound' = [inbound EXCEPT ![c] = Tail(@)]
       \/ /\ conn[c] = "closed"
          /\ UNCHANGED <<heap, consumed, inbound>>
    /\ recvErrs' = [recvErrs EXCEPT ![c] = IF @ < MaxErrs THEN @ + 1 ELSE @]
    /\ lpc' = [lpc EXCEPT ![c] = "unwind"]
    /\ UNCHANGED <<connVars, doneVars, loops, unwinding, arrived, dataPtr,
                   recvOK, callVars, closeResults, crashed>>
    /\ UNCHANGED normVars

\* websocket.JSON.Receive(c.ws, data) returns an error.
\* Either the message at the head of the connection is undecodable (it is
\* consumed), or the connection has been closed (nothing is consumed).
ReceiveErr(c) ==
    /\ ~crashed
    /\ lpc[c] = "receive"
    /\ \/ /\ inbound[c] # <<>>
          /\ ~Head(inbound[c]).ok
          /\ heap' = [heap EXCEPT ![c][dataPtr[c]] =
                         DecodeFailed(@, Head(inbound[c]))]
          /\ consumed' = [consumed EXCEPT ![c] = Append(@, Head(inbound[c]))]
          /\ inbound' = [inbound EXCEPT ![c] = Tail(@)]
       \/ /\ conn[c] = "closed"
          /\ UNCHANGED <<heap, consumed, inbound>>
    /\ recvErrs' = [recvErrs EXCEPT ![c] = IF @ < MaxErrs THEN @ + 1 ELSE @]
    /\ lpc' = [lpc EXCEPT ![c] = "failed"]
    /\ UNCHANGED <<connVars, doneVars, loops, unwinding, arrived, dataPtr,
                   recvOK, callVars, closeResults, crashed>>
    /\ UNCHANGED normVars

\* if err != nil { continue }: the loop goes round to the next Receive.
Continue(c) ==
    /\ ~crashed
    /\ lpc[c] = "failed"
    /\ lpc' = [lpc EXCEPT ![c] = "receive"]
    /\ UNCHANGED <<connVars, doneVars, loops, unwinding, recvVars, callVars,
                   closeResults, crashed>>
    /\ UNCHANGED normVars

\* Variant of InvokeHandler: go c.frameHandler(data), the loop does not wait
\* for the call.
InvokeHandler_async(c) ==
    /\ ~crashed
    /\ lpc[c] = "check"
    /\ IF handler[c] = "nil"
       THEN UNCHANGED callVars
       ELSE /\ delivered' = [delivered EXCEPT ![c] =
                   Append(@, [ptr |-> dataPtr[c],
                              snap |-> heap[c][dataPtr[c]],
                              msg |-> IF consumed[c] = <<>> THEN 0
                                      ELSE consumed[c][Len(consumed[c])].seq])]
            /\ inHandler' = Inc(inHandler, c)
    /\ lpc' = [lpc EXCEPT ![c] = "receive"]
    /\ UNCHANGED <<connVars, doneVars, loops, unwinding, recvVars,
                   closeResults, crashed>>
    /\ UNCHANGED normVars

\* if c.frameHandler != nil { c.frameHandler(data) }: the call begins.
InvokeHandler(c) ==
    /\ ~crashed
    /\ lpc[c] = "check"
    /\ IF handler[c] = "nil"
       THEN /\ lpc' = [lpc EXCEPT ![c] = "receive"]
            /\ UNCHANGED callVars
       ELSE /\ delivered' = [delivered EXCEPT ![c] =
                   Append(@, [ptr |-> dataPtr[c],
                              snap |-> heap[c][dataPtr[c]],
                              msg |-> IF consumed[c] = <<>> THEN 0
                                      ELSE consumed[c][Len(consumed[c])].seq])]
            /\ inHandler' = Inc(inHandler, c)
            /\ lpc' = [lpc EXCEPT ![c] = "handler"]
    /\ UNCHANGED <<connVars, doneVars, loops, unwinding, recvVars,
                   closeResults, crashed>>
    /\ UNCHANGED normVars

\* c.frameHandler(data) returns; the for loop goes round.
HandlerReturn(c) ==
    /\ ~crashed
    /\ lpc[c] = "handler"
    /\ inHandler[c] > 0
    /\ inHandler' = [inHandler EXCEPT ![c] = @ - 1]
    /\ lpc' = [lpc EXCEPT ![c] = "receive"]
    /\ UNCHANGED <<connVars, doneVars, loops, unwinding, recvVars, delivered,
                   closeResults, crashed>>
    /\ UNCHANGED normVars

\* c.frameHandler(data) does not return normally: it panics or calls
\* runtime.Goexit, and processData unwinds.
HandlerUnwind(c) ==
    /\ ~crashed
    /\ lpc[c] = "handler"
    /\ inHandler[c] > 0
    /\ \E kind \in {"panic", "goexit"} :
          unwinding' = [unwinding EXCEPT ![c] = kind]
    /\ inHandler' = [inHandler EXCEPT ![c] = @ - 1]
    /\ lpc' = [lpc EXCEPT ![c] = "unwind"]
    /\ UNCHANGED <<connVars, doneVars, loops, recvVars, delivered,
                   closeResults, crashed>>
    /\ UNCHANGED normVars

\* Variant of RunDeferred: the defer is missing, processData ends without
\* closing c.done.
RunDeferred_noClose(c) ==
    /\ ~crashed
    /\ lpc[c] = "unwind"
    /\ lpc' = [lpc EXCEPT ![c] = "exited"]
    /\ UNCHANGED <<connVars, doneVars, loops, unwinding, recvVars, callVars,
                   closeResults, crashed>>
    /\ UNCHANGED normVars

\* The deferred close(c.done) runs as processData unwinds.
RunDeferred(c) ==
    /\ ~crashed
    /\ lpc[c] = "unwind"
    /\ done' = [done EXCEPT ![c] = "closed"]
    /\ doneCloses' = Inc(doneCloses, c)
    /\ lpc' = [lpc EXCEPT ![c] = "exited"]
    /\ UNCHANGED <<connVars, doneSeen, loops, unwinding, recvVars, callVars,
                   closeResults, crashed>>
    /\ UNCHANGED normVars

\* An unrecovered panic ends the process once the deferred calls have run.
Crash ==
    /\ ~crashed
    /\ \E c \in Clients : lpc[c] = "exited" /\ unwinding[c] = "panic"
    /\ crashed' = TRUE
    /\ UNCHANGED <<connVars, doneVars, loopVars, recvVars, callVars,
                   closeResults>>
    /\ UNCHANGED normVars

\* ------------------------------------------------------------ Close, Done
\* c.ws.Close(): the first close of the connection may report an error of
\* its own; closing a connection that is already closed reports an error.
WsClose(state) ==
    IF state = "open" THEN {"nil", "closeErr"} ELSE {"errClosed"}

\* Variant of Close: Close closes c.done itself.
Close_closesDone(c) ==
    /\ ~crashed
    /\ ret[c].client = c
    /\ Len(closeResults[c]) < MaxCloses
    /\ \E r \in WsClose(conn[c]) :
          closeResults' = [closeResults EXCEPT ![c] = Append(@, r)]
    /\ conn' = [conn EXCEPT ![c] = "closed"]
    /\ done' = [done EXCEPT ![c] = "closed"]
    /\ doneCloses' = Inc(doneCloses, c)
    /\ UNCHANGED <<cpc, handler, wire, failed, ret, doneSeen, loopVars,
                   recvVars, callVars, crashed>>
    /\ UNCHANGED normVars

\* Variant of Close: Close waits for the loop to end (<-c.done) before it
\* returns.
Close_waitsDone(c) ==
    /\ ~crashed
    /\ HasClient(c)
    /\ Len(closeResults[c]) < MaxCloses
    /\ done[c] = "closed"
    /\ \E r \in WsClose(conn[c]) :
          closeResults' = [closeResults EXCEPT ![c] = Append(@, r)]
    /\ conn' = [conn EXCEPT ![c] = "closed"]
    /\ UNCHANGED <<cpc, handler, wire, failed, ret, doneVars, loopVars,
                   recvVars, callVars, crashed>>
    /\ UNCHANGED normVars

\* func (c *Client) Close() error
Close(c) ==
    /\ ~crashed
    /\ HasClient(c)
    /\ Len(closeResults[c]) < MaxCloses
    /\ IF conn[c] = "none"
       THEN /\ closeResults' = [closeResults EXCEPT ![c] = Append(@, "nil")]
            /\ UNCHANGED conn
       ELSE /\ \E r \in WsClose(conn[c]) :
                  closeResults' = [closeResults EXCEPT ![c] = Append(@, r)]
            /\ conn' = [conn EXCEPT ![c] = "closed"]
    /\ UNCHANGED <<cpc, handler, wire, failed, ret, doneVars, loopVars,
                   recvVars, callVars, crashed>>
    /\ UNCHANGED normVars

\* func (c *Client) Done() <-chan struct{}: a caller polls the channel.
Done(c) ==
    /\ ~crashed
    /\ HasClient(c)
    /\ doneSeen' = [doneSeen EXCEPT ![c] = (done[c] = "closed")]
    /\ UNCHANGED <<connVars, done, doneCloses, loopVars, recvVars, callVars,
                   closeResults, crashed>>
    /\ UNCHANGED normVars

\* ------------------------------------------------------------------- Spec
Next ==
    \/ \E c \in Clients : ConnectDial(c)
    \/ \E c \in Clients : ConnectSendGestures(c)
    \/ \E c \in Clients : ConnectSendBackground(c)
    \/ \E c \in Clients : ConnectGo(c)
    \/ \E c \in Clients : NewZeroClient(c)
    \/ \E c \in Clients : ProcessDataStart(c)
    \/ \E c \in Clients : Arrive(c)
    \/ \E c \in Clients : ReceiveOK(c)
    \/ \E c \in Clients : ReceiveErr(c)
    \/ \E c \in Clients : Continue(c)
    \/ \E c \in Clients : InvokeHandler(c)
    \/ \E c \in Clients : HandlerReturn(c)
    \/ \E c \in Clients : HandlerUnwind(c)
    \/ \E c \in Clients : RunDeferred(c)
    \/ Crash
    \/ \E c \in Clients : Close(c)
    \/ \E c \in Clients : Done(c)

Spec == Init /\ [][Next]_vars

\* The Go scheduler keeps running a runnable goroutine: every step of
\* processData that is continuously enabled is eventually taken, and a
\* handler call ends (by returning or by unwinding).
LoopFair(c) ==
    /\ WF_clientVars(ProcessDataStart(c))
    /\ WF_clientVars(ReceiveOK(c))
    /\ WF_clientVars(ReceiveErr(c))
    /\ WF_clientVars(Continue(c))
    /\ WF_clientVars(InvokeHandler(c))
    /\ WF_clientVars(HandlerReturn(c) \/ HandlerUnwind(c))
    /\ WF_clientVars(RunDeferred(c))

FairSpec == Spec /\ \A c \in Clients : LoopFair(c)

\* ========================================================= NormalizePoint
\* Inputs of the calls.  Components past the third are all 9, a value no
\* triple contains.
CenterTriples == {<<1, 1, 1>>, <<0, 2, -1>>}
SizeTriples == {<<1, 1, 1>>, <<2, 4, 1>>, <<4, 0, -2>>}
PointTriples == {<<1, 1, 1>>, <<0, 2, -1>>, <<0, 3, 1>>, <<3, -3, 1>>,
                 <<1, 2, 1>>, <<-1, 7, 0>>}
Pad(t, n) == [k \in 1..n |-> IF k <= 3 THEN t[k] ELSE 9]
Floats(q) == [k \in 1..Len(q) |-> FromInt(q[k])]

\* ((position[k] - float64(i.Center[k])) / i.Size[k]) + 0.5
NormAxis_centerAfter(p, c, s) ==
    FAdd(FSub(FDiv(p, s), FromInt(c)), Half)

NormAxis(p, c, s) ==
    FAdd(FDiv(FSub(p, FromInt(c)), s), Half)

\* math.Min(math.Max(v, 0), 1)
Clamp_swapped(v) == FMax(FMin(v, Zero), One)

Clamp(v) == FMin(FMax(v, Zero), One)

NormErr(mem, e) == [mem |-> mem, ptr |-> "nil", err |-> e]

\* Variant of NormalizePoint: the length checks are != 3.
NormalizePoint_exact3(mem, pos, clamp, fresh) ==
    IF Len(mem.center) # 3 THEN NormErr(mem, "center")
    ELSE IF Len(mem.size) # 3 THEN NormErr(mem, "size")
    ELSE IF Len(mem[pos]) # 3 THEN NormErr(mem, "position")
    ELSE LET vec == [k \in 1..3 |->
                        NormAxis(mem[pos][k], mem.center[k], mem.size[k])]
             out == IF clamp THEN [k \in 1..3 |-> Clamp(vec[k])] ELSE vec
         IN  [mem |-> [mem EXCEPT ![fresh] = out], ptr |-> fresh, err |-> "nil"]

\* Variant of NormalizePoint: the clamp flag is ignored.
NormalizePoint_noClamp(mem, pos, clamp, fresh) ==
    IF Len(mem.center) < 3 THEN NormErr(mem, "center")
    ELSE IF Len(mem.size) < 3 THEN NormErr(mem, "size")
    ELSE IF Len(mem[pos]) < 3 THEN NormErr(mem, "position")
    ELSE LET vec == [k \in 1..3 |->
                        NormAxis(mem[pos][k], mem.center[k], mem.size[k])]
         IN  [mem |-> [mem EXCEPT ![fresh] = vec], ptr |-> fresh, err |-> "nil"]

\* Variant of NormalizePoint: the result is written into position, which is
\* returned.
NormalizePoint_inPlace(mem, pos, clamp, fresh) ==
    IF Len(mem.center) < 3 THEN NormErr(mem, "center")
    ELSE IF Len(mem.size) < 3 THEN NormErr(mem, "size")
    ELSE IF Len(mem[pos]) < 3 THEN NormErr(mem, "position")
    ELSE LET vec == [k \in 1..3 |->
                        NormAxis(mem[pos][k], mem.center[k], mem.size[k])]
             out == IF clamp THEN [k \in 1..3 |-> Clamp(vec[k])] ELSE vec
         IN  [mem |-> [mem EXCEPT ![pos] =
                          [k \in 1..Len(mem[pos]) |->
                              IF k <= 3 THEN out[k] ELSE mem[pos][k]]],
              ptr |-> pos, err |-> "nil"]

\* func (i *InteractionBox) NormalizePoint(position []float64, clamp bool)
\* mem holds the arrays, pos names the slice passed as position, fresh names
\* the array that vec := []float64{0, 0, 0} allocates.  A nil slice has
\* length 0.
NormalizePoint(mem, pos, clamp, fresh) ==
    IF Len(mem.center) < 3 THEN NormErr(mem, "center")
    ELSE IF Len(mem.size) < 3 THEN NormErr(mem, "size")
    ELSE IF Len(mem[pos]) < 3 THEN NormErr(mem, "position")
    ELSE LET vec0 == <<Zero, Zero, Zero>>
             vec1 == [k \in 1..3 |->
                        NormAxis(mem[pos][k], mem.center[k], mem.size[k])]
             vec2 == [k \in 1..3 |->
                        NormAxis(mem[pos][k], mem.center[k], mem.size[k])]
             out == IF clamp THEN [k \in 1..3 |-> Clamp(vec2[k])] ELSE vec2
         IN  [mem |-> [mem EXCEPT ![fresh] = out], ptr |-> fresh, err |-> "nil"]

\* A caller has an InteractionBox and a point, of any shape.
NormInit ==
    /\ ClientInit
    /\ npc = "idle"
    /\ \E ct \in CenterTriples, st \in SizeTriples, pt \in PointTriples,
          lc \in 0..MaxLen, ls \in 0..MaxLen, lp \in 0..MaxLen,
          cl \in BOOLEAN :
          /\ nargs = [center |-> Pad(ct, lc), size |-> Floats(Pad(st, ls)),
                      position |-> Floats(Pad(pt, lp)), clamp |-> cl]
          /\ nmem = [center |-> Pad(ct, lc), size |-> Floats(Pad(st, ls)),
                     position |-> Floats(Pad(pt, lp)),
                     r1 |-> <<>>, r2 |-> <<>>]
    /\ nres = <<>>

Returned(r, arg) ==
    [ptr |-> r.ptr, err |-> r.err, arg |-> arg,
     val |-> IF r.ptr = "nil" THEN <<>> ELSE r.mem[r.ptr]]

\* box.NormalizePoint(position, clamp)
Call ==
    /\ npc = "idle"
    /\ LET r == NormalizePoint(nmem, "position", nargs.clamp, "r1")
       IN  /\ nmem' = r.mem
           /\ nres' = <<Returned(r, "position")>>
    /\ npc' = "called"
    /\ UNCHANGED <<nargs, clientVars>>

\* The same call once more, with the same arguments.
CallAgain ==
    /\ npc = "called"
    /\ LET r == NormalizePoint(nmem, "position", nargs.clamp, "r2")
       IN  /\ nmem' = r.mem
           /\ nres' = Append(nres, Returned(r, "position"))
    /\ npc' = "again"
    /\ UNCHANGED <<nargs, clientVars>>

\* box.NormalizePoint(out, true) where out is what the first call returned
\* with clamp = true.
CallOnResult ==
    /\ npc = "called"
    /\ nargs.clamp
    /\ nres[1].ptr = "r1"
    /\ LET r == NormalizePoint(nmem, "r1", TRUE, "r2")
       IN  /\ nmem' = r.mem
           /\ nres' = Append(nres, Returned(r, "r1"))
    /\ npc' = "again"
    /\ UNCHANGED <<nargs, clientVars>>

NormNext == Call \/ CallAgain \/ CallOnResult

NormSpec == NormInit /\ [][NormNext]_vars

\* ================================================================ claims
Fired(c) == done[c] = "closed"
CloseCalled(c) == closeResults[c] # <<>>
HandlerCalls(c) == Len(delivered[c])

\* C1: once Close has been called on a client that a successful Connect
\* returned, the receive loop eventually
\* exits and the done-signal eventually fires (under fair scheduling of the
\* loop).
C1_CloseEndsLoop ==
    \A c \in Clients :
        (ret[c].client = c /\ CloseCalled(c)) ~> (lpc[c] = "exited" /\ Fired(c))

\* C2: once the done-signal of a client has fired, its frame handler is
\* never invoked again.
C2_NoHandlerAfterDone ==
    [][\A c \in Clients :
          Fired(c) => /\ HandlerCalls(c)' = HandlerCalls(c)
                      /\ inHandler'[c] <= inHandler[c]]_vars

\* The loop has exited after delivering a frame while a message is waiting.
C2_Witness ==
    \E c \in Clients :
        Fired(c) /\ HandlerCalls(c) >= 1 /\ inbound[c] # <<>>

\* C3: the done-signal is closed at most once and, once fired, stays fired,
\* over any sequence of Connect, Close, Done and loop steps.
C3_DoneFiresOnce ==
    /\ [](\A c \in Clients : /\ doneCloses[c] <= 1
                             /\ Fired(c) <=> doneCloses[c] = 1)
    /\ [][\A c \in Clients : Fired(c) => Fired(c)']_vars

\* The signal has fired, has been seen by a waiter, and Close was called
\* twice on the client.
C3_Witness ==
    \E c \in Clients :
        Fired(c) /\ doneSeen[c] /\ Len(closeResults[c]) >= 2

\* C4: a second Close on a client whose connection a first Close already
\* closed returns no error.
C4_CloseIdempotent ==
    \A c \in Clients :
        \A i \in 2..Len(closeResults[c]) : closeResults[c][i] = "nil"

\* C5: when the dial or one of the two sends fails, Connect returns that
\* error and a nil client, no loop is started, no handler is invoked and no
\* done-signal is observable.
C5_FailedConnect ==
    \A c \in Clients :
        failed[c] # "none" =>
            /\ cpc[c] = "returned"
            /\ ret[c] = [client |-> "nil", err |-> failed[c]]
            /\ loops[c] = 0
            /\ lpc[c] = "none"
            /\ HandlerCalls(c) = 0
            /\ recvOK[c] + recvErrs[c] = 0
            /\ ~doneSeen[c]
            /\ ~Fired(c)

\* The dial and the first send succeeded and the second send failed.
C5_Witness ==
    \E c \in Clients :
        failed[c] = "send2" /\ conn[c] = "open" /\ wire[c] = <<"enableGestures">>

Handshake == <<"enableGestures", "backgroundMessage">>

\* C6: a successful Connect has sent exactly enableGestures then
\* backgroundMessage, each once, before the loop is started and before any
\* receive.
C6_HandshakeOrder ==
    \A c \in Clients :
        /\ Len(wire[c]) <= Len(Handshake)
        /\ wire[c] = SubSeq(Handshake, 1, Len(wire[c]))
        /\ (\/ ret[c].client = c
            \/ loops[c] > 0
            \/ lpc[c] # "none"
            \/ recvOK[c] + recvErrs[c] > 0) => wire[c] = Handshake

\* Connect returned a client and its loop has received a message.
C6_Witness ==
    \E c \in Clients :
        ret[c].client = c /\ recvOK[c] > 0 /\ wire[c] = Handshake

IsOK(m) == m.ok
MsgsOf(c) == [i \in 1..Len(delivered[c]) |-> delivered[c][i].msg]
OKSeqs(c) ==
    LET oks == SelectSeq(consumed[c], IsOK)
    IN  [i \in 1..Len(oks) |-> oks[i].seq]
Front(q) == SubSeq(q, 1, Len(q) - 1)

\* C7: with a non-nil handler, the messages handed to the handler are
\* exactly the decodable messages taken off the connection, in arrival
\* order; an undecodable message is the only kind skipped and it does not
\* disturb the delivery of the messages after it.
C7_LoopResilience ==
    \A c \in Clients :
        handler[c] = "fn" =>
            MsgsOf(c) = IF lpc[c] = "check" THEN Front(OKSeqs(c)) ELSE OKSeqs(c)

\* An undecodable message arrived between two decodable ones, and both
\* neighbours have been delivered.
C7_Witness ==
    \E c \in Clients :
        /\ Len(consumed[c]) >= 3
        /\ consumed[c][1].ok /\ ~consumed[c][2].ok /\ consumed[c][3].ok
        /\ MsgsOf(c) = <<1, 3>>

\* C8: handler calls of one client never overlap, and the loop is not in a
\* receive while a handler call is in progress.
C8_HandlerSerial ==
    \A c \in Clients :
        /\ inHandler[c] <= 1
        /\ inHandler[c] = 1 <=> lpc[c] = "handler"

\* A second handler call is in progress while another message is waiting.
C8_Witness ==
    \E c \in Clients :
        inHandler[c] = 1 /\ HandlerCalls(c) >= 2 /\ inbound[c] # <<>>

\* C9: the number of handler calls never exceeds the number of successful
\* receives, and no message is delivered twice, replayed or reordered.
C9_AtMostOnce ==
    \A c \in Clients :
        /\ HandlerCalls(c) <= recvOK[c]
        /\ \A i, j \in 1..HandlerCalls(c) :
              i < j => delivered[c][i].msg < delivered[c][j].msg
        /\ \A i \in 1..HandlerCalls(c) :
              \E k \in 1..Len(consumed[c]) :
                  consumed[c][k].ok /\ consumed[c][k].seq = delivered[c][i].msg

\* Two frames were delivered, a receive failed, and later the connection
\* was closed and kept failing.
C9_Witness ==
    \E c \in Clients :
        /\ HandlerCalls(c) >= 2
        /\ recvErrs[c] >= 2
        /\ conn[c] = "closed"
        /\ \E k \in 1..Len(consumed[c]) : ~consumed[c][k].ok

\* C10: a Frame handed to the handler is never modified again by the client
\* (the Frame retained from message k keeps message k's content), and a
\* delivered Frame contains only data of its own message.
C10_FrameImmutable ==
    \A c \in Clients :
        \A i \in 1..HandlerCalls(c) :
            /\ heap[c][delivered[c][i].ptr] = delivered[c][i].snap
            /\ \E k \in 1..Len(consumed[c]) :
                  /\ consumed[c][k].seq = delivered[c][i].msg
                  /\ delivered[c][i].snap = Decode(ZeroFrame, consumed[c][k])

\* C11: the done-signal has fired exactly when the receive loop has exited:
\* a fired signal means the loop makes no further receive, and an exited
\* loop means the signal has fired.
C11_DoneIffExited ==
    \A c \in Clients :
        /\ Fired(c) <=> lpc[c] = "exited"
        /\ Fired(c) => ~ENABLED ReceiveOK(c) /\ ~ENABLED ReceiveErr(c)

\* The loop has exited with a message still waiting on the connection.
C11_Witness ==
    \E c \in Clients :
        lpc[c] = "exited" /\ Fired(c) /\ inbound[c] # <<>> /\ recvOK[c] >= 1

\* C16: Close returns in every state of the loop (it never waits for the
\* loop), and on a client without a connection it returns nil and changes
\* nothing.
C16_CloseNeverWaits ==
    /\ [](\A c \in Clients :
             (HasClient(c) /\ ~crashed /\ Len(closeResults[c]) < MaxCloses)
                 => ENABLED Close(c))
    /\ [][\A c \in Clients :
             (conn[c] = "none" /\ closeResults'[c] # closeResults[c]) =>
                 /\ closeResults'[c] = Append(closeResults[c], "nil")
                 /\ UNCHANGED <<connVars, doneVars, loopVars, recvVars,
                                callVars, crashed>>]_vars

\* Close has returned while the loop sits inside a handler call that has
\* not returned.
C16_Witness ==
    \E c \in Clients :
        lpc[c] = "handler" /\ closeResults[c] # <<>> /\ conn[c] = "closed"

\* Close has returned nil, twice, on a client that has no connection.
C16_NilConnReached ==
    \E c \in Clients :
        cpc[c] = "literal" /\ closeResults[c] = <<"nil", "nil">>

C18_OneLoop ==
    /\ [](\A c \in Clients :
             /\ loops[c] = IF ret[c].client = c THEN 1 ELSE 0
             /\ lpc[c] # "none" <=> loops[c] = 1)
    /\ [][\A c \in Clients :
             /\ loops'[c] # loops[c] => cpc[c] = "go" /\ cpc'[c] = "returned"
             /\ lpc[c] \notin {"none", "spawned"} => lpc'[c] # "spawned"]_vars

\* The loop has run, failed receives, delivered a frame, exited, and Close
\* and Done were called: still one loop.
C18_Witness ==
    \E c \in Clients :
        /\ loops[c] = 1 /\ lpc[c] = "exited" /\ doneSeen[c]
        /\ closeResults[c] # <<>> /\ recvErrs[c] >= 1

\* C19: a connection opened by a Connect call that returned an error has
\* been closed by the time Connect returns.
C19_NoLeak ==
    \A c \in Clients :
        (cpc[c] = "returned" /\ ret[c].client = "nil") => conn[c] # "open"

\* ----------------------------------------------- claims on NormalizePoint
Called == npc \in {"called", "again"}
Shape3 ==
    Len(nargs.center) = 3 /\ Len(nargs.size) = 3 /\ Len(nargs.position) = 3
AtLeast3 ==
    Len(nargs.center) >= 3 /\ Len(nargs.size) >= 3 /\ Len(nargs.position) >= 3
ValidInput == Shape3 /\ \A k \in 1..3 : nargs.size[k].n # 0

\* (p - c) / s + 1/2 as one fraction, for s # 0
RefAffine(p, c, s) ==
    Fin(2 * (p.n - c * p.d) * s.d + p.d * s.n, 2 * p.d * s.n)
RefOf(k) == RefAffine(nargs.position[k], nargs.center[k], nargs.size[k])

\* x saturated into [0, 1]
Sat(x) == IF FLess(x, Zero) THEN Zero ELSE IF FLess(One, x) THEN One ELSE x

\* C12 (as claimed): NormalizePoint returns an error and no result whenever
\* center, size or point has a length other than 3, and a result only when
\* all three have exactly 3 components.
C12_ExactShape ==
    Called => /\ nres[1].err = "nil" <=> Shape3
              /\ nres[1].err # "nil" <=> nres[1].ptr = "nil"

\* C12 (amended): NormalizePoint returns an error and no result exactly when
\* center, size or point has fewer than 3 components (nil included), the
\* error naming the first short one in the order center, size, point; with
\* at least 3 components in each it returns a 3-component result.
C12_ShapeValidation ==
    Called =>
        /\ nres[1].err # "nil" <=> ~AtLeast3
        /\ nres[1].err # "nil" => nres[1].ptr = "nil" /\ nres[1].val = <<>>
        /\ nres[1].err = "nil" => nres[1].ptr # "nil" /\ Len(nres[1].val) = 3
        /\ nres[1].err = "center" <=> Len(nargs.center) < 3
        /\ nres[1].err = "size" <=>
               Len(nargs.center) >= 3 /\ Len(nargs.size) < 3
        /\ nres[1].err = "position" <=>
               /\ Len(nargs.center) >= 3 /\ Len(nargs.size) >= 3
               /\ Len(nargs.position) < 3

\* A call with four-component center, size and point has returned a result.
C12_Witness ==
    /\ Called
    /\ Len(nargs.center) = 4 /\ Len(nargs.size) = 4 /\ Len(nargs.position) = 4
    /\ nres[1].err = "nil" /\ Len(nres[1].val) = 3

\* A nil size is rejected with the size error although the center has four
\* components.
C12_RejectReached ==
    /\ Called
    /\ Len(nargs.center) = 4 /\ Len(nargs.size) = 0 /\ nres[1].err = "size"

\* C13: for 3-component center, non-zero size and point, clamp = false gives
\* (p[k] - c[k]) / s[k] + 0.5 on each axis; the center maps to
\* (0.5, 0.5, 0.5).
C13_Affine ==
    (Called /\ ValidInput /\ ~nargs.clamp) =>
        /\ nres[1].err = "nil"
        /\ \A k \in 1..3 : nres[1].val[k] = RefOf(k)
        /\ nargs.position = Floats(nargs.center)
               => nres[1].val = <<Half, Half, Half>>

\* An unclamped result outside [0, 1] on two axes.
C13_Witness ==
    /\ Called /\ ValidInput /\ ~nargs.clamp
    /\ nres[1].val = <<Fin(3, 2), Fin(-1, 2), Half>>

\* C14: with clamp = true every axis is the unclamped value saturated into
\* [0, 1]: below 0 gives 0, above 1 gives 1, values in [0, 1] are unchanged.
C14_ClampSaturation ==
    (Called /\ ValidInput /\ nargs.clamp) =>
        /\ nres[1].err = "nil"
        /\ \A k \in 1..3 :
              /\ nres[1].val[k] = Sat(RefOf(k))
              /\ ~FLess(nres[1].val[k], Zero)
              /\ ~FLess(One, nres[1].val[k])
              /\ nres[1].val[k].kind = "fin"

\* One axis saturated to 1, one to 0, one strictly inside left alone.
C14_Witness ==
    /\ Called /\ ValidInput /\ nargs.clamp
    /\ nres[1].val = <<One, Zero, Half>>
    /\ RefOf(1) = Fin(3, 2) /\ RefOf(2) = Fin(-1, 2)

\* C15 (as claimed): NormalizePoint with clamp = true applied, with the same
\* volume, to the output of NormalizePoint(p, true) yields the same output.
C15_RenormalizeSame ==
    (npc = "again" /\ ValidInput /\ nres[2].arg = "r1")
        => nres[2].val = nres[1].val

\* C15 (amended): an output of NormalizePoint(p, true) is a fixed point of
\* the clamp: saturating it into [0, 1] again leaves every component as it
\* is.  (Normalizing it again applies the affine map again and in general
\* gives another point.)
C15_ClampIdempotent ==
    (Called /\ ValidInput /\ nargs.clamp) =>
        \A k \in 1..3 : Clamp(nres[1].val[k]) = nres[1].val[k]

\* A clamped output was normalized again and came back different.
C15_Witness ==
    /\ npc = "again" /\ ValidInput /\ nres[2].arg = "r1"
    /\ nres[1].val = <<One, Zero, Half>>
    /\ nres[2].val # nres[1].val

\* C20: NormalizePoint leaves center, size and the caller's point as they
\* were, returns a new slice that aliases none of them (or nil with an
\* error), and returns equal results for equal inputs.
C20_NoSideEffects ==
    Called =>
        /\ nmem.center = nargs.center
        /\ nmem.size = nargs.size
        /\ nmem.position = nargs.position
        /\ nmem.r1 = nres[1].val
        /\ \A i \in 1..Len(nres) :
              /\ nres[i].ptr \notin {"center", "size", "position"}
              /\ nres[i].ptr = "nil" <=> nres[i].err # "nil"
              /\ nres[i].ptr # "nil" => nmem[nres[i].ptr] = nres[i].val
        /\ Len(nres) = 2 =>
              /\ nres[2].ptr # "nil" => nres[2].ptr # nres[1].ptr
              /\ nres[2].arg = "position" =>
                    nres[2].val = nres[1].val /\ nres[2].err = nres[1].err

\* Two calls with the same four-component point, whose result differs from
\* the point.
C20_Witness ==
    /\ npc = "again" /\ nres[2].arg = "position" /\ nres[1].err = "nil"
    /\ Len(nargs.position) = 4
    /\ nres[1].val # SubSeq(nargs.position, 1, 3)

====
